---- MODULE Spec2Model ----
(***************************************************************************)
(* The agent-server coordination protocol of crater: the agent routes of   *)
(* the server (src/server/routes/agent.rs) and the agent runtime           *)
(* (src/agent/mod.rs).                                                     *)
(*                                                                         *)
(* A request handler runs as a sequence of steps, one per call into the    *)
(* shared Data (database, notification sink, reports worker); handlers of  *)
(* concurrent requests interleave between those calls.                     *)
(***************************************************************************)
EXTENDS Integers, FiniteSets, Sequences, TLC

\* ------------------------------------------------------------------ bounds

\* Requests the server handles at the same time.
MaxReqs == 2
\* The notification sink accepts at most this many messages per experiment.
MaxSink == 2
\* The clock stops here (seconds).
MaxClock == 120
\* Reported failures are counted up to this many.
MaxReported == 2
\* Seconds one Tick advances the clock by.
TickSecs == 30

\* --------------------------------------------------------------- constants

\* thread::sleep(Duration::from_secs(60)) of the heartbeat loop.
HEARTBEAT_SECS == 60

Agents == {"agent-a", "agent-b"}
Exps == {"E1", "E2"}
\* The experiments created with a linked issue; the others have none.
WithIssue == {"E1"}
Pkgs == {"foo", "bar"}
Revs == {"rev1", "rev2"}
ReqIds == 1..MaxReqs

NoAgent == "unassigned"
NoEx == "no-experiment"
NoRev == "no-revision"
Never == -1

\* Status, in lifecycle order.
StatusOrder == <<"Queued", "Running", "NeedsReport", "GeneratingReport", "Completed">>
Rank(s) == CHOOSE i \in 1..Len(StatusOrder) : StatusOrder[i] = s

\* Bearer credentials a client may present: the two agents' tokens, a valid
\* token of another type, and a string that is no token at all.
Creds == {"token-a", "token-b", "token-user", "garbage"}
Methods == {"GET", "POST"}
Paths == {"config", "next-experiment", "complete-experiment", "record-progress",
          "heartbeat", "elsewhere"}
\* A request body: a ProgressData for a package, or bytes that do not parse.
BadBody == "not-json"
Bodies == Pkgs \cup {BadBody}

VARIABLES
    status,          \* experiment -> Status
    assigned_to,     \* experiment -> agent name, or NoAgent
    github_issue,    \* experiment -> whether an external issue is linked
    sink,            \* experiment -> messages handed to the notification sink
    progress,        \* stored progress records <<experiment, agent, package>>
    woken,           \* the reports worker's wake flag
    worker_seen,     \* the experiments the worker's last wake-up found to report
    git_revision,    \* agent -> last stored revision, or NoRev
    last_heartbeat,  \* agent -> time of the last recorded heartbeat, or Never
    clock,           \* seconds
    reqs,            \* request slot -> the request in it and its handler's position
    nr_moves,        \* experiment -> Running -> NeedsReport transitions seen (history)
    completed,       \* agent -> a complete of this agent moved its experiment
                     \* and no experiment was assigned to it since (history)
    token,           \* the agent process: the credential it was started with
    main_pc,         \* the agent process: position of run()
    agent_ex,        \* the agent process: the experiment run() holds
    lost_ex,         \* the experiment the agent ran when it was restarted (history)
    hb_pc,           \* the heartbeat thread: its position
    hb_wake,         \* the heartbeat thread: when its sleep ends
    hb_sent_at,      \* when the last heartbeat call was made, or Never (history)
    hb_result,       \* how the last heartbeat call ended (history)
    reported         \* failures handed to utils::report_failure

server_vars == <<status, assigned_to, github_issue, sink, progress, woken, worker_seen,
                 git_revision, last_heartbeat, reqs, nr_moves, completed>>
agent_vars == <<token, lost_ex, main_pc, agent_ex, lost_ex, hb_pc, hb_wake, hb_sent_at, hb_result,
                reported>>

\* ------------------------------------------------------ credential gate

\* auth.rs is not among the sources: by the specification the gate resolves
\* a credential to an identity and a token type, or to nothing.
TokenTypeOf(cred) ==
    CASE cred \in {"token-a", "token-b"} -> "Agent"
      [] cred = "token-user" -> "User"
      [] OTHER -> "Invalid"

TokenName(cred) ==
    CASE cred = "token-a" -> "agent-a"
      [] cred = "token-b" -> "agent-b"
      [] OTHER -> "someone"

\* auth_filter(data, TokenType::Agent): TRUE when the request passes.
auth_filter(cred, required) == TokenTypeOf(cred) = required

\* --------------------------------------------------------------- routing

\* The five routes of routes(): method, path, and whether body::json()
\* stands before the credential gate in the filter chain.
RouteTable ==
    { [name |-> "config", method |-> "GET", path |-> "config", body |-> FALSE],
      [name |-> "next_experiment", method |-> "GET", path |-> "next-experiment",
       body |-> FALSE],
      [name |-> "complete_experiment", method |-> "POST",
       path |-> "complete-experiment", body |-> FALSE],
      [name |-> "record_progress", method |-> "POST", path |-> "record-progress",
       body |-> TRUE],
      [name |-> "heartbeat", method |-> "POST", path |-> "heartbeat",
       body |-> FALSE] }

\* One route's filter chain, left to right; the first filter that rejects
\* decides and the later ones are not evaluated.
RouteFilter(rt, q) ==
    IF q.method # rt.method THEN "MethodNotAllowed"
    ELSE IF q.path # rt.path THEN "NotFound"
    ELSE IF rt.body /\ q.body = BadBody THEN "BadRequest"
    ELSE IF ~auth_filter(q.cred, "Agent") THEN "Forbidden"
    ELSE "Pass"

\* config.or(next_experiment).or(...): the route that passes, if any.
Matched(q) == {rt \in RouteTable : RouteFilter(rt, q) = "Pass"}
\* ... and otherwise the rejections of all five, combined.
Rejections(q) == {RouteFilter(rt, q) : rt \in RouteTable}

\* Rejection::status() of a combined rejection: NOT_FOUND ranks lowest,
\* METHOD_NOT_ALLOWED next, anything else above both.
RejectionStatus(rej) ==
    IF rej \ {"NotFound", "MethodNotAllowed"} # {}
    THEN CHOOSE x \in rej \ {"NotFound", "MethodNotAllowed"} : TRUE
    ELSE IF "MethodNotAllowed" \in rej THEN "MethodNotAllowed"
    ELSE "NotFound"

\* ------------------------------------------------------------- responses

\* A response: the envelope's kind, the error text of an error envelope, and
\* the result of a success envelope (an experiment with its crates, a
\* boolean, or the agent's name with the configuration).
Resp(k, err, e, cr, fl, an) ==
    [kind |-> k, error |-> err, ex |-> e, crates |-> cr, flag |-> fl, agent_name |-> an]
NoResp == Resp("none", "", NoEx, {}, FALSE, NoAgent)
\* ApiResponse::Success { result }
SuccessEx(e, cr) == Resp("success", "", e, cr, FALSE, NoAgent)
SuccessTrue == Resp("success", "", NoEx, {}, TRUE, NoAgent)
SuccessConfig(an) == Resp("success", "", NoEx, {}, FALSE, an)
\* ApiResponse::internal_error(msg), ::unauthorized(), ::not_found()
InternalError(msg) == Resp("internal_error", msg, NoEx, {}, FALSE, NoAgent)
Unauthorized == Resp("unauthorized", "", NoEx, {}, FALSE, NoAgent)
NotFound == Resp("not_found", "", NoEx, {}, FALSE, NoAgent)
\* handle_errors returned Err(err): the rejection goes on to warp's own reply.
Unhandled(st) == Resp("rejection", st, NoEx, {}, FALSE, NoAgent)

\* The HTTP status of a response (api_types.rs is not among the sources: the
\* specification gives 404, 403 and 500).
StatusCode(resp) ==
    CASE resp.kind = "success" -> 200
      [] resp.kind = "internal_error" -> 500
      [] resp.kind = "unauthorized" -> 403
      [] resp.kind = "not_found" -> 404
      [] resp.kind = "rejection" /\ resp.error = "BadRequest" -> 400
      [] OTHER -> 0

\* handle_errors: a cause of type HttpError decides; else NOT_FOUND and
\* METHOD_NOT_ALLOWED become HttpError::NotFound; else the rejection is
\* returned as it came.
handle_errors(rej) ==
    IF "Forbidden" \in rej THEN Unauthorized
    ELSE IF RejectionStatus(rej) = "NotFound" THEN NotFound
    ELSE IF RejectionStatus(rej) = "MethodNotAllowed" THEN NotFound
    ELSE Unhandled(RejectionStatus(rej))

OwnershipError == "no experiment run by this agent"
SendError == "failed to post the message"
RevisionError == "failed to store the revision"

\* handle_results: Ok(resp) => resp, Err(err) => internal_error(err.to_string())
handle_results(ok, resp, err) == IF ok THEN resp ELSE InternalError(err)

\* ------------------------------------------------------------ requests

Idle == [pc |-> "idle", method |-> "GET", path |-> "elsewhere", cred |-> "garbage",
         body |-> BadBody, rev |-> NoRev, name |-> NoAgent, ex |-> NoEx,
         new |-> FALSE, race |-> NoEx, resp |-> NoResp]

\* What a client sends.
Request(m, p, c, b, rv) == [method |-> m, path |-> p, cred |-> c, body |-> b, rev |-> rv]

\* Only record-progress reads a body and only heartbeat reads the revision.
AllRequests ==
    {q \in {Request(m, p, c, b, rv) : m \in Methods, p \in Paths, c \in Creds,
                                      b \in Bodies, rv \in Revs \cup {NoRev}} :
        /\ q.rev # NoRev => q.path = "heartbeat"
        /\ q.body = BadBody => q.path = "record-progress"}

\* What an agent holding a valid token sends through AgentApi.
AgentRequests ==
    {q \in AllRequests : Matched(q) # {} /\ q.body # BadBody}

Free(r) == reqs[r].pc \in {"idle", "done"}
Done(r) == reqs[r].pc = "done"
\* A new request takes the first free slot.
FirstFree(r) == Free(r) /\ \A r2 \in ReqIds : r2 < r => ~Free(r2)

HeartbeatEntry_always(rev) == "hb_revision"

\* if let Some(rev) = auth.git_revision { ... }
HeartbeatEntry(rev) == IF rev # NoRev THEN "hb_revision" ELSE "hb_record"

\* The handler's first position.
Entry(rt, q) ==
    CASE rt.name = "config" -> "config"
      [] rt.name = "next_experiment" -> "next"
      [] rt.name = "complete_experiment" -> "complete"
      [] rt.name = "record_progress" -> "progress"
      [] rt.name = "heartbeat" -> HeartbeatEntry(q.rev)

Queued == {e \in Exps : status[e] = "Queued"}

\* A claimNext of another agent is waiting while exactly one experiment is
\* Queued: both requests remember that experiment.
Racing(r, q, me) ==
    {r2 \in ReqIds \ {r} : reqs[r2].pc = "next" /\ reqs[r2].name # me
                          /\ reqs[r2].race = NoEx}

\* The handler returns: its locals are gone, the response stays.
Finish(r, resp) == [reqs[r] EXCEPT !.pc = "done", !.resp = resp, !.ex = NoEx,
                                   !.new = FALSE]

\* routes(): the filters of the five routes, then the handler, or
\* handle_errors on the combined rejection.
Accept(r, q) ==
    /\ Free(r)
    /\ IF Matched(q) # {}
       THEN LET rt == CHOOSE x \in Matched(q) : TRUE
                me == TokenName(q.cred)
                rivals == IF rt.name = "next_experiment" /\ Cardinality(Queued) = 1
                          THEN Racing(r, q, me) ELSE {}
                only == IF rivals # {} THEN CHOOSE e \in Queued : TRUE ELSE NoEx
            IN reqs' = [x \in ReqIds |->
                          IF x = r
                          THEN [Idle EXCEPT !.pc = Entry(rt, q), !.method = q.method,
                                            !.path = q.path, !.cred = q.cred,
                                            !.body = q.body, !.rev = q.rev,
                                            !.name = me, !.race = only]
                          ELSE IF x \in rivals THEN [reqs[x] EXCEPT !.race = only]
                          ELSE reqs[x]]
       ELSE reqs' = [reqs EXCEPT ![r] =
                        [Idle EXCEPT !.pc = "done", !.method = q.method,
                                     !.path = q.path, !.cred = q.cred,
                                     !.body = q.body, !.rev = q.rev,
                                     !.resp = handle_errors(Rejections(q))]]
    /\ UNCHANGED <<status, assigned_to, github_issue, sink, progress, woken, worker_seen,
                   git_revision, last_heartbeat, clock, nr_moves, completed>>

\* A request of some client arrives.
Receive(r, q) == FirstFree(r) /\ Accept(r, q) /\ UNCHANGED agent_vars

\* ------------------------------------------------- experiment registry

\* experiments.rs is not among the sources: by the specification the
\* registry's operations are atomic, and claiming is one conditional update.

RunBy(a) == {e \in Exps : status[e] = "Running" /\ assigned_to[e] = a}

\* Experiment::run_by(db, assignee)
Experiment_run_by(a) == IF RunBy(a) = {} THEN NoEx ELSE CHOOSE e \in RunBy(a) : TRUE

Experiment_next_steal(a, e, new) ==
    IF Experiment_run_by(a) # NoEx
    THEN e = Experiment_run_by(a) /\ new = FALSE /\ UNCHANGED <<status, assigned_to>>
    ELSE IF {x \in Exps : status[x] \in {"Queued", "Running"}} # {}
    THEN /\ e \in {x \in Exps : status[x] \in {"Queued", "Running"}}
         /\ new = TRUE
         /\ status' = [status EXCEPT ![e] = "Running"]
         /\ assigned_to' = [assigned_to EXCEPT ![e] = a]
    ELSE e = NoEx /\ new = FALSE /\ UNCHANGED <<status, assigned_to>>

Experiment_next_no_redelivery(a, e, new) ==
    IF Queued # {}
    THEN /\ e \in Queued
         /\ new = TRUE
         /\ status' = [status EXCEPT ![e] = "Running"]
         /\ assigned_to' = [assigned_to EXCEPT ![e] = a]
    ELSE /\ e = Experiment_run_by(a) /\ new = FALSE /\ UNCHANGED <<status, assigned_to>>

\* Experiment::next(db, assignee) returns Some((new, e)), or None as
\* e = NoEx: the experiment the agent already runs, else one Queued
\* experiment, which it marks Running and assigns, in one atomic step.
Experiment_next(a, e, new) ==
    IF Experiment_run_by(a) # NoEx
    THEN e = Experiment_run_by(a) /\ new = FALSE /\ UNCHANGED <<status, assigned_to>>
    ELSE IF Queued # {}
    THEN /\ e \in Queued
         /\ new = TRUE
         /\ status' = [status EXCEPT ![e] = "Running"]
         /\ assigned_to' = [assigned_to EXCEPT ![e] = a]
    ELSE e = NoEx /\ new = FALSE /\ UNCHANGED <<status, assigned_to>>

\* ex.set_status(db, s): writes the status of the experiment named ex.
Experiment_set_status(e, s) == status' = [status EXCEPT ![e] = s]

\* The crates of e with a stored result.
CompletedCrates(e) == {p \in Pkgs : \E a \in Agents : <<e, a, p>> \in progress}

\* ex.remove_completed_crates(db), on the handler's copy of the experiment.
remove_completed_crates(e) == Pkgs \ CompletedCrates(e)

\* ---------------------------------------------- endpoint_next_experiment

NotifyWanted_always(e, new) == github_issue[e]

NotifyWanted_no_issue_check(e, new) == new

\* if new { if let Some(ref github_issue) = ex.github_issue { ... } }
NotifyWanted(e, new) == new /\ github_issue[e]

\* let next = Experiment::next(&data.db, &Assignee::Agent(auth.name.clone()))?;
next_claim(r) ==
    /\ reqs[r].pc = "next"
    /\ \E e \in Exps \cup {NoEx}, new \in BOOLEAN :
         /\ Experiment_next(reqs[r].name, e, new)
         /\ reqs' = [reqs EXCEPT ![r] =
               IF e = NoEx THEN Finish(r, handle_results(TRUE, SuccessEx(NoEx, {}), ""))
               ELSE [@ EXCEPT !.ex = e, !.new = new,
                              !.pc = IF NotifyWanted(e, new) THEN "next_notify"
                                     ELSE "next_strip"]]
         /\ completed' = IF new THEN [completed EXCEPT ![reqs[r].name] = FALSE]
                         ELSE completed
    /\ UNCHANGED <<agent_vars, github_issue, sink, progress, woken, worker_seen, git_revision,
                   last_heartbeat, clock, nr_moves>>

\* Message::new().line(...).send(&github_issue.api_url, &data)?;
next_notify(r) ==
    /\ reqs[r].pc = "next_notify"
    /\ sink[reqs[r].ex] < MaxSink
    /\ sink' = [sink EXCEPT ![reqs[r].ex] = @ + 1]
    /\ \E ok \in BOOLEAN :
         reqs' = [reqs EXCEPT ![r] =
                    IF ok THEN [@ EXCEPT !.pc = "next_strip"]
                    ELSE Finish(r, handle_results(FALSE, NoResp, SendError))]
    /\ UNCHANGED <<agent_vars, status, assigned_to, github_issue, progress, woken, worker_seen,
                   git_revision, last_heartbeat, clock, nr_moves, completed>>

next_strip_unstripped(r) ==
    /\ reqs[r].pc = "next_strip"
    /\ reqs' = [reqs EXCEPT ![r] =
          Finish(r, handle_results(TRUE, SuccessEx(reqs[r].ex, Pkgs), ""))]
    /\ UNCHANGED <<agent_vars, status, assigned_to, github_issue, sink, progress, woken,
                   worker_seen, git_revision, last_heartbeat, clock, nr_moves, completed>>

\* ex.remove_completed_crates(&data.db)?; Ok(ApiResponse::Success { result })
next_strip(r) ==
    /\ reqs[r].pc = "next_strip"
    /\ reqs' = [reqs EXCEPT ![r] =
          Finish(r, handle_results(TRUE,
                      SuccessEx(reqs[r].ex, remove_completed_crates(reqs[r].ex)), ""))]
    /\ UNCHANGED <<agent_vars, status, assigned_to, github_issue, sink, progress, woken, worker_seen,
                   git_revision, last_heartbeat, clock, nr_moves, completed>>

\* ------------------------------------------ endpoint_complete_experiment

complete_run_by_lenient(r) ==
    /\ reqs[r].pc = "complete"
    /\ LET e == Experiment_run_by(reqs[r].name)
       IN reqs' = [reqs EXCEPT ![r] =
             IF e = NoEx THEN Finish(r, handle_results(TRUE, SuccessTrue, ""))
             ELSE [@ EXCEPT !.ex = e, !.pc = "complete_set"]]
    /\ UNCHANGED <<agent_vars, status, assigned_to, github_issue, sink, progress, woken, worker_seen,
                   git_revision, last_heartbeat, clock, nr_moves, completed>>

\* Experiment::run_by(...)?.ok_or_else(|| err_msg("no experiment run by this agent"))?
complete_run_by(r) ==
    /\ reqs[r].pc = "complete"
    /\ LET e == Experiment_run_by(reqs[r].name)
       IN reqs' = [reqs EXCEPT ![r] =
             IF e = NoEx THEN Finish(r, handle_results(FALSE, NoResp, OwnershipError))
             ELSE [@ EXCEPT !.ex = e, !.pc = "complete_set"]]
    /\ UNCHANGED <<agent_vars, status, assigned_to, github_issue, sink, progress, woken, worker_seen,
                   git_revision, last_heartbeat, clock, nr_moves, completed>>

complete_set_status_skipped(r) ==
    /\ reqs[r].pc = "complete_set"
    /\ reqs' = [reqs EXCEPT ![r].pc = "complete_wake"]
    /\ UNCHANGED <<agent_vars, status, assigned_to, github_issue, sink, progress, woken,
                   worker_seen, git_revision, last_heartbeat, clock, nr_moves, completed>>

\* ex.set_status(&data.db, Status::NeedsReport)?;
complete_set_status(r) ==
    /\ reqs[r].pc = "complete_set"
    /\ Experiment_set_status(reqs[r].ex, "NeedsReport")
    /\ reqs' = [reqs EXCEPT ![r].pc = "complete_wake"]
    /\ nr_moves' = IF status[reqs[r].ex] = "Running" /\ nr_moves[reqs[r].ex] < 2
                   THEN [nr_moves EXCEPT ![reqs[r].ex] = @ + 1] ELSE nr_moves
    /\ completed' = IF status[reqs[r].ex] = "Running"
                    THEN [completed EXCEPT ![reqs[r].name] = TRUE] ELSE completed
    /\ UNCHANGED <<agent_vars, assigned_to, github_issue, sink, progress, woken, worker_seen, git_revision,
                   last_heartbeat, clock>>

complete_wake_skipped(r) ==
    /\ reqs[r].pc = "complete_wake"
    /\ reqs' = [reqs EXCEPT ![r] = Finish(r, handle_results(TRUE, SuccessTrue, ""))]
    /\ UNCHANGED <<agent_vars, woken, worker_seen, status, assigned_to, github_issue, sink,
                   progress, git_revision, last_heartbeat, clock, nr_moves, completed>>

\* data.reports_worker.wake(); Ok(ApiResponse::Success { result: true })
complete_wake(r) ==
    /\ reqs[r].pc = "complete_wake"
    /\ woken' = TRUE
    /\ reqs' = [reqs EXCEPT ![r] = Finish(r, handle_results(TRUE, SuccessTrue, ""))]
    /\ UNCHANGED <<agent_vars, worker_seen, status, assigned_to, github_issue, sink, progress, git_revision,
                   last_heartbeat, clock, nr_moves, completed>>

\* ---------------------------------------------- endpoint_record_progress

progress_run_by_lenient(r) ==
    /\ reqs[r].pc = "progress"
    /\ LET e == Experiment_run_by(reqs[r].name)
       IN reqs' = [reqs EXCEPT ![r] =
             IF e = NoEx THEN Finish(r, handle_results(TRUE, SuccessTrue, ""))
             ELSE [@ EXCEPT !.ex = e, !.pc = "progress_store"]]
    /\ UNCHANGED <<agent_vars, status, assigned_to, github_issue, sink, progress, woken, worker_seen,
                   git_revision, last_heartbeat, clock, nr_moves, completed>>

\* Experiment::run_by(...)?.ok_or_else(|| err_msg("no experiment run by this agent"))?
progress_run_by(r) ==
    /\ reqs[r].pc = "progress"
    /\ LET e == Experiment_run_by(reqs[r].name)
       IN reqs' = [reqs EXCEPT ![r] =
             IF e = NoEx THEN Finish(r, handle_results(FALSE, NoResp, OwnershipError))
             ELSE [@ EXCEPT !.ex = e, !.pc = "progress_store"]]
    /\ UNCHANGED <<agent_vars, status, assigned_to, github_issue, sink, progress, woken, worker_seen,
                   git_revision, last_heartbeat, clock, nr_moves, completed>>

progress_store_misfiled(r) ==
    /\ reqs[r].pc = "progress_store"
    /\ \E e \in Exps : progress' = progress \cup {<<e, reqs[r].name, reqs[r].body>>}
    /\ reqs' = [reqs EXCEPT ![r] = Finish(r, handle_results(TRUE, SuccessTrue, ""))]
    /\ UNCHANGED <<agent_vars, status, assigned_to, github_issue, sink, woken, worker_seen,
                   git_revision, last_heartbeat, clock, nr_moves, completed>>

\* db.store(&experiment, &result)?; Ok(ApiResponse::Success { result: true })
progress_store(r) ==
    /\ reqs[r].pc = "progress_store"
    /\ progress' = progress \cup {<<reqs[r].ex, reqs[r].name, reqs[r].body>>}
    /\ reqs' = [reqs EXCEPT ![r] = Finish(r, handle_results(TRUE, SuccessTrue, ""))]
    /\ UNCHANGED <<agent_vars, status, assigned_to, github_issue, sink, woken, worker_seen, git_revision,
                   last_heartbeat, clock, nr_moves, completed>>

\* ---------------------------------------------------- endpoint_heartbeat

\* if let Some(rev) = auth.git_revision { data.agents.set_git_revision(..)?; }
hb_revision(r) ==
    /\ reqs[r].pc = "hb_revision"
    /\ \E ok \in BOOLEAN :
         IF ok
         THEN /\ git_revision' = [git_revision EXCEPT ![reqs[r].name] = reqs[r].rev]
              /\ reqs' = [reqs EXCEPT ![r].pc = "hb_record"]
         ELSE /\ git_revision' = git_revision
              /\ reqs' = [reqs EXCEPT ![r] =
                            Finish(r, handle_results(FALSE, NoResp, RevisionError))]
    /\ UNCHANGED <<agent_vars, status, assigned_to, github_issue, sink, progress, woken, worker_seen,
                   last_heartbeat, clock, nr_moves, completed>>

\* data.agents.record_heartbeat(&auth.name)?; Ok(Success { result: true })
hb_record(r) ==
    /\ reqs[r].pc = "hb_record"
    /\ last_heartbeat' = [last_heartbeat EXCEPT ![reqs[r].name] = clock]
    /\ reqs' = [reqs EXCEPT ![r] = Finish(r, handle_results(TRUE, SuccessTrue, ""))]
    /\ UNCHANGED <<agent_vars, status, assigned_to, github_issue, sink, progress, woken, worker_seen,
                   git_revision, clock, nr_moves, completed>>

\* ------------------------------------------------------- endpoint_config

endpoint_config(r) ==
    /\ reqs[r].pc = "config"
    /\ reqs' = [reqs EXCEPT ![r] =
          Finish(r, handle_results(TRUE, SuccessConfig(reqs[r].name), ""))]
    /\ UNCHANGED <<agent_vars, status, assigned_to, github_issue, sink, progress, woken, worker_seen,
                   git_revision, last_heartbeat, clock, nr_moves, completed>>

\* ------------------------------------------------------- reports worker

\* The reports worker is external: by the specification it is woken through
\* a single-slot flag, and takes an experiment that needs a report to
\* GeneratingReport and then to Completed. A wake-up takes the flag and looks
\* for the experiments that need a report.
ReportsWorkerWake ==
    /\ woken
    /\ woken' = FALSE
    /\ worker_seen' = {e \in Exps : status[e] = "NeedsReport"}
    /\ UNCHANGED <<agent_vars, status, assigned_to, github_issue, sink, progress,
                   git_revision, last_heartbeat, clock, reqs, nr_moves, completed>>

ReportsWorkerStart(e) ==
    /\ e \in worker_seen
    /\ worker_seen' = worker_seen \ {e}
    /\ status' = IF status[e] = "NeedsReport"
                 THEN [status EXCEPT ![e] = "GeneratingReport"] ELSE status
    /\ UNCHANGED <<agent_vars, woken, assigned_to, github_issue, sink, progress,
                   git_revision, last_heartbeat, clock, reqs, nr_moves, completed>>

ReportsWorkerFinish(e) ==
    /\ status[e] = "GeneratingReport"
    /\ status' = [status EXCEPT ![e] = "Completed"]
    /\ UNCHANGED <<agent_vars, assigned_to, github_issue, sink, progress, woken,
                   worker_seen, git_revision, last_heartbeat, clock, reqs, nr_moves,
                   completed>>

\* Time passes.
Tick ==
    /\ clock + TickSecs <= MaxClock
    /\ clock' = clock + TickSecs
    /\ UNCHANGED <<server_vars, agent_vars>>


\* ---------------------------------------------------------- agent runtime

\* The request slots the two threads of the agent process use.
MainSlot == 1
HbSlot == 2
\* The revision the agent's build reports with its credential.
AgentRev == "rev1"

\* agent/api.rs is not among the sources: by the specification a call of
\* AgentApi sends one request and is Ok on a success envelope, Err on any
\* other response or when the request does not get through.
ApiSend(slot, m, p, rv) ==
    Accept(slot, Request(m, p, token, CHOOSE b \in Pkgs : TRUE, rv))
ApiOk(slot) == reqs[slot].resp.kind = "success"

Alive == main_pc # "exited"

\* A call of the main thread: the request goes out, or the call fails and
\* the ? makes run() return the error.
MainSend(from, m, p, wait) ==
    /\ main_pc = from
    /\ \/ ApiSend(MainSlot, m, p, NoRev) /\ main_pc' = wait
       \/ main_pc' = "exited" /\ UNCHANGED <<server_vars, clock>>
    /\ UNCHANGED <<token, lost_ex, agent_ex, hb_pc, hb_wake, hb_sent_at, hb_result, reported>>

AgentNew_recv_lenient ==
    /\ main_pc = "connect_wait" /\ Done(MainSlot)
    /\ main_pc' = "spawn"
    /\ UNCHANGED <<server_vars, clock, token, lost_ex, agent_ex, hb_pc, hb_wake, hb_sent_at,
                   hb_result, reported>>

\* Agent::new: let config = api.config()?;
AgentNew_send == MainSend("connect", "GET", "config", "connect_wait")

AgentNew_recv ==
    /\ main_pc = "connect_wait" /\ Done(MainSlot)
    /\ main_pc' = IF ApiOk(MainSlot) THEN "spawn" ELSE "exited"
    /\ UNCHANGED <<server_vars, clock, token, lost_ex, agent_ex, hb_pc, hb_wake, hb_sent_at,
                   hb_result, reported>>

\* run_heartbeat(url, token): thread::spawn(move || loop { ... })
run_heartbeat_spawn ==
    /\ main_pc = "spawn"
    /\ main_pc' = "fetch"
    /\ hb_pc' = "beat"
    /\ UNCHANGED <<server_vars, clock, token, lost_ex, agent_ex, hb_wake, hb_sent_at,
                   hb_result, reported>>

\* let ex = agent.experiment()?;
experiment_send == MainSend("fetch", "GET", "next-experiment", "fetch_wait")

\* "no work" makes next_experiment ask again.
experiment_recv ==
    /\ main_pc = "fetch_wait" /\ Done(MainSlot)
    /\ IF ~ApiOk(MainSlot) THEN main_pc' = "exited" /\ agent_ex' = agent_ex
       ELSE IF reqs[MainSlot].resp.ex = NoEx THEN main_pc' = "fetch" /\ agent_ex' = agent_ex
       ELSE main_pc' = "run_ex" /\ agent_ex' = reqs[MainSlot].resp.ex
    /\ UNCHANGED <<server_vars, clock, token, lost_ex, hb_pc, hb_wake, hb_sent_at, hb_result,
                   reported>>

\* crate::runner::run_ex(&ex, &db, threads_count, &agent.config, docker_env):
\* the external runner ends with Ok or with Err.
run_ex ==
    /\ main_pc = "run_ex"
    /\ \E ok \in BOOLEAN : main_pc' = IF ok THEN "ran_ok" ELSE "ran_err"
    /\ UNCHANGED <<server_vars, clock, token, lost_ex, agent_ex, hb_pc, hb_wake, hb_sent_at,
                   hb_result, reported>>

run_ex_try_ignore ==
    /\ main_pc \in {"ran_ok", "ran_err"}
    /\ main_pc' = "complete"
    /\ UNCHANGED <<server_vars, clock, token, lost_ex, agent_ex, hb_pc, hb_wake, hb_sent_at,
                   hb_result, reported>>

\* The ? after run_ex(...).
run_ex_try ==
    /\ main_pc \in {"ran_ok", "ran_err"}
    /\ main_pc' = IF main_pc = "ran_ok" THEN "complete" ELSE "exited"
    /\ UNCHANGED <<server_vars, clock, token, lost_ex, agent_ex, hb_pc, hb_wake, hb_sent_at,
                   hb_result, reported>>

\* let db = results::ResultsUploader::new(&agent.api): the runner records
\* the result of a crate through the agent's api while it runs.
run_ex_record_send == MainSend("run_ex", "POST", "record-progress", "record_wait")

run_ex_record_recv ==
    /\ main_pc = "record_wait" /\ Done(MainSlot)
    /\ main_pc' = IF ApiOk(MainSlot) THEN "run_ex" ELSE "exited"
    /\ UNCHANGED <<server_vars, clock, token, lost_ex, agent_ex, hb_pc, hb_wake, hb_sent_at,
                   hb_result, reported>>

\* agent.api.complete_experiment()?;
complete_send == MainSend("complete", "POST", "complete-experiment", "complete_wait")

complete_recv ==
    /\ main_pc = "complete_wait" /\ Done(MainSlot)
    /\ main_pc' = IF ApiOk(MainSlot) THEN "fetch" ELSE "exited"
    /\ agent_ex' = IF ApiOk(MainSlot) THEN NoEx ELSE agent_ex
    /\ UNCHANGED <<server_vars, clock, token, lost_ex, hb_pc, hb_wake, hb_sent_at, hb_result,
                   reported>>

AfterHeartbeat_propagate(ok) == IF ok THEN "sleep" ELSE "dead"

\* if let Err(e) = api.heartbeat()... { utils::report_failure(&e); }
\* thread::sleep(Duration::from_secs(60));
AfterHeartbeat(ok) == "sleep"

\* The heartbeat call has ended, Ok or Err.
HeartbeatEnds(ok) ==
    /\ hb_result' = IF ok THEN "ok" ELSE "err"
    /\ reported' = IF ~ok /\ reported < MaxReported THEN reported + 1 ELSE reported
    /\ hb_pc' = AfterHeartbeat(ok)
    /\ hb_wake' = clock + HEARTBEAT_SECS

\* api.heartbeat(): the request goes out, or the call fails at once.
heartbeat_send ==
    /\ Alive /\ hb_pc = "beat"
    /\ hb_sent_at' = clock
    /\ \/ /\ ApiSend(HbSlot, "POST", "heartbeat", AgentRev)
          /\ hb_pc' = "beat_wait"
          /\ UNCHANGED <<hb_result, reported, hb_wake>>
       \/ HeartbeatEnds(FALSE) /\ UNCHANGED <<server_vars, clock>>
    /\ UNCHANGED <<token, lost_ex, main_pc, agent_ex>>

heartbeat_recv ==
    /\ Alive /\ hb_pc = "beat_wait" /\ Done(HbSlot)
    /\ HeartbeatEnds(ApiOk(HbSlot))
    /\ UNCHANGED <<server_vars, clock, token, lost_ex, main_pc, agent_ex, hb_sent_at>>

\* The sleep of the heartbeat loop is over.
heartbeat_wake ==
    /\ Alive /\ hb_pc = "sleep" /\ clock >= hb_wake
    /\ hb_pc' = "beat"
    /\ UNCHANGED <<server_vars, clock, token, lost_ex, main_pc, agent_ex, hb_wake, hb_sent_at,
                   hb_result, reported>>

\* The agent process ends at any point: killed, or the machine goes down.
Crash ==
    /\ Alive
    /\ main_pc' = "exited"
    /\ UNCHANGED <<server_vars, clock, token, lost_ex, agent_ex, hb_pc, hb_wake,
                   hb_sent_at, hb_result, reported>>

\* The supervisor starts run() again with the same url and token. Nothing of
\* the old process is left; the registry still holds what it was running.
Restart ==
    /\ main_pc = "exited" /\ Free(MainSlot)
    /\ main_pc' = "connect"
    /\ agent_ex' = NoEx
    /\ lost_ex' = Experiment_run_by(TokenName(token))
    /\ hb_pc' = "unspawned" /\ hb_wake' = 0 /\ hb_sent_at' = Never
    /\ hb_result' = "none" /\ reported' = 0
    /\ UNCHANGED <<server_vars, clock, token>>

\* -------------------------------------------------------- specification

vars == <<server_vars, clock, agent_vars>>

InitServer ==
    /\ status = [e \in Exps |-> "Queued"]
    /\ assigned_to = [e \in Exps |-> NoAgent]
    /\ github_issue = [e \in Exps |-> e \in WithIssue]
    /\ sink = [e \in Exps |-> 0]
    /\ progress = {}
    /\ woken = FALSE
    /\ worker_seen = {}
    /\ git_revision = [a \in Agents |-> NoRev]
    /\ last_heartbeat = [a \in Agents |-> Never]
    /\ clock = 0
    /\ reqs = [r \in ReqIds |-> Idle]
    /\ nr_moves = [e \in Exps |-> 0]
    /\ completed = [a \in Agents |-> FALSE]

\* run(url, token, ...) has been called.
InitAgent(tok) ==
    /\ token = tok
    /\ main_pc = "connect"
    /\ agent_ex = NoEx
    /\ lost_ex = NoEx
    /\ hb_pc = "unspawned"
    /\ hb_wake = 0
    /\ hb_sent_at = Never
    /\ hb_result = "none"
    /\ reported = 0

Init == InitServer /\ InitAgent("token-a")

Handle(r) ==
    \/ next_claim(r)
    \/ next_notify(r)
    \/ next_strip(r)
    \/ complete_run_by(r)
    \/ complete_set_status(r)
    \/ complete_wake(r)
    \/ progress_run_by(r)
    \/ progress_store(r)

HandleAgent(r) ==
    \/ hb_revision(r)
    \/ hb_record(r)
    \/ endpoint_config(r)

\* The calls on the experiment registry.
RegistryRequests ==
    {q \in AgentRequests :
        /\ q.path \in {"next-experiment", "complete-experiment", "record-progress"}
        /\ q.body = "foo"}

\* The server under agents that hold valid tokens and work on experiments.
Next ==
    \/ \E r \in ReqIds, q \in RegistryRequests : Receive(r, q)
    \/ \E r \in ReqIds : Handle(r)
    \/ ReportsWorkerWake
    \/ \E e \in Exps : ReportsWorkerStart(e)
    \/ \E e \in Exps : ReportsWorkerFinish(e)

Spec == Init /\ [][Next]_vars

\* Any client: every method, path and body with the credential of an agent,
\* of another token type or of nobody, one request at a time.
GateRequests ==
    {q \in AllRequests : /\ q.cred # "token-b" /\ q.rev \in {NoRev, AgentRev}
                         /\ q.body \in {"foo", BadBody}}

GateNext ==
    \/ \E q \in GateRequests : Receive(1, q)
    \/ Handle(1)
    \/ HandleAgent(1)
    \/ ReportsWorkerWake
    \/ \E e \in Exps : ReportsWorkerStart(e)
    \/ \E e \in Exps : ReportsWorkerFinish(e)

GateSpec == Init /\ [][GateNext]_vars

\* Agents that claim experiments and record the results of their crates.
StripRequests ==
    {q \in AgentRequests : q.path \in {"next-experiment", "record-progress"}}

StripNext ==
    \/ \E r \in ReqIds, q \in StripRequests : Receive(r, q)
    \/ \E r \in ReqIds : \/ next_claim(r)
                          \/ next_notify(r)
                          \/ next_strip(r)
                          \/ progress_run_by(r)
                          \/ progress_store(r)

StripSpec == Init /\ [][StripNext]_vars

\* The calls on the agent registry, as time passes.
AgentRegistryRequests ==
    {q \in AgentRequests : q.path \in {"heartbeat", "config"} /\ q.body = "foo"}

HbNext ==
    \/ \E r \in ReqIds, q \in AgentRegistryRequests : Receive(r, q)
    \/ \E r \in ReqIds : HandleAgent(r)
    \/ Tick

HbSpec == Init /\ [][HbNext]_vars

\* One agent process against the server.
AgentInit == InitServer /\ \E tok \in {"token-a", "garbage"} : InitAgent(tok)

AgentNext ==
    \/ AgentNew_send
    \/ AgentNew_recv
    \/ run_heartbeat_spawn
    \/ experiment_send
    \/ experiment_recv
    \/ run_ex
    \/ run_ex_try
    \/ run_ex_record_send
    \/ run_ex_record_recv
    \/ complete_send
    \/ complete_recv
    \/ heartbeat_send
    \/ heartbeat_recv
    \/ heartbeat_wake
    \/ \E r \in ReqIds : Handle(r)
    \/ \E r \in ReqIds : HandleAgent(r)
    \/ Tick

AgentSpec == AgentInit /\ [][AgentNext]_vars

\* One agent process that is restarted when it ends, against the server;
\* its heartbeats are left out.
MainStep ==
    \/ AgentNew_send
    \/ AgentNew_recv
    \/ run_heartbeat_spawn
    \/ experiment_send
    \/ experiment_recv
    \/ run_ex
    \/ run_ex_try
    \/ run_ex_record_send
    \/ run_ex_record_recv
    \/ complete_send
    \/ complete_recv

ServerStep == \E r \in ReqIds : Handle(r) \/ endpoint_config(r)

RestartNext ==
    \/ MainStep
    \/ ServerStep
    \/ Crash
    \/ Restart

\* The server answers every request, run() takes its next step, and the
\* runner ends; the supervisor and crashes are under no obligation.
RestartFair ==
    /\ WF_vars(ServerStep)
    /\ WF_vars(MainStep)
    /\ SF_vars(run_ex)

RestartSpec == Init /\ [][RestartNext]_vars /\ RestartFair

\* ================================================================ claims

IsNext(r) == reqs[r].path = "next-experiment"
Received(r, e) == Done(r) /\ reqs[r].resp.kind = "success" /\ reqs[r].resp.ex = e

\* C1: two claimNext calls of distinct agents that were both waiting while
\* exactly one experiment was Queued: once both have returned, exactly one
\* of them has received that experiment.
C1_ExactlyOneReceives ==
    \A r1, r2 \in ReqIds :
        (/\ r1 # r2 /\ IsNext(r1) /\ IsNext(r2) /\ Done(r1) /\ Done(r2)
         /\ reqs[r1].name # reqs[r2].name
         /\ reqs[r1].race # NoEx /\ reqs[r1].race = reqs[r2].race)
        => Cardinality({r \in {r1, r2} : Received(r, reqs[r1].race)}) = 1

\* C2: an assignee, once set, is never changed; an experiment gets its
\* assignee only in the step of a claimNext that takes it from Queued to
\* Running, for the caller; and an experiment a claimNext returns is
\* assigned to the caller.
C2_AssigneeStable ==
    [][\A e \in Exps :
         /\ assigned_to[e] # NoAgent => assigned_to'[e] = assigned_to[e]
         /\ assigned_to'[e] # assigned_to[e] =>
               /\ status[e] = "Queued" /\ status'[e] = "Running"
               /\ \E r \in ReqIds : /\ reqs[r].pc = "next" /\ reqs'[r].ex = e
                                    /\ reqs[r].name = assigned_to'[e]
         /\ \A r \in ReqIds :
               (IsNext(r) /\ reqs'[r].pc = "done" /\ reqs'[r].resp.ex = e)
               => assigned_to'[e] = reqs'[r].name]_vars

\* agent-b asked for work and got "no work" while agent-a runs an experiment
\* and nothing is assigned to agent-b.
C2_Witness ==
    /\ \E e \in Exps : status[e] = "Running" /\ assigned_to[e] = "agent-a"
    /\ \A e \in Exps : assigned_to[e] = "agent-a"
    /\ \E r \in ReqIds : /\ IsNext(r) /\ reqs[r].name = "agent-b"
                         /\ Received(r, NoEx)

\* C3: a claimNext of an agent that runs an experiment takes that
\* experiment without touching any status, assignee or the notification
\* sink, goes on without a notification, and returns that experiment.
C3_Redelivery ==
    [][\A r \in ReqIds :
         LET e == Experiment_run_by(reqs[r].name) IN
         /\ (reqs[r].pc = "next" /\ reqs'[r].pc # "next" /\ e # NoEx) =>
               /\ reqs'[r].pc = "next_strip" /\ reqs'[r].ex = e /\ ~reqs'[r].new
               /\ status' = status /\ assigned_to' = assigned_to /\ sink' = sink
         /\ (reqs[r].pc = "next_strip" /\ ~reqs[r].new /\ reqs'[r].pc # "next_strip") =>
               /\ reqs'[r].pc = "done" /\ reqs'[r].resp.kind = "success"
               /\ reqs'[r].resp.ex = reqs[r].ex
               /\ status' = status /\ assigned_to' = assigned_to /\ sink' = sink]_vars

\* A redelivery of E1, which has a linked issue, is about to be returned.
C3_Witness ==
    \E r \in ReqIds : /\ reqs[r].pc = "next_strip" /\ ~reqs[r].new
                      /\ reqs[r].ex \in WithIssue /\ sink[reqs[r].ex] = 1

\* C4: the complete of the agent that runs an experiment moves it from
\* Running to NeedsReport, which happens at most once per experiment; a
\* complete that starts after a complete of the same agent moved its
\* experiment, with no experiment assigned to the agent since, ends with the
\* ownership error and changes no status.
C4_CompleteOnce ==
    [][/\ \A r \in ReqIds :
            /\ (reqs[r].pc = "complete" /\ reqs'[r].pc # "complete"
                /\ completed[reqs[r].name]) =>
                  /\ reqs'[r].pc = "done"
                  /\ reqs'[r].resp = InternalError(OwnershipError)
                  /\ status' = status
            /\ (reqs[r].pc = "complete_set" /\ reqs'[r].pc # "complete_set"
                /\ status[reqs[r].ex] = "Running") =>
                  /\ status'[reqs[r].ex] = "NeedsReport"
                  /\ assigned_to[reqs[r].ex] = reqs[r].name
       /\ \A e \in Exps : nr_moves'[e] <= 1]_vars

\* A second complete of an agent has failed with the ownership error.
C4_Witness ==
    \E r \in ReqIds : /\ Done(r) /\ reqs[r].path = "complete-experiment"
                      /\ reqs[r].resp = InternalError(OwnershipError)
                      /\ completed[reqs[r].name]
                      /\ \E e \in Exps : nr_moves[e] = 1

\* C5: a recordProgress of an agent that runs no experiment ends with the
\* ownership error and stores nothing; that of an agent that runs an
\* experiment stores the record for that experiment and changes no status
\* and no assignee.
C5_RecordProgress ==
    [][\A r \in ReqIds :
         LET e == Experiment_run_by(reqs[r].name) IN
         /\ (reqs[r].pc = "progress" /\ reqs'[r].pc # "progress" /\ e = NoEx) =>
               /\ reqs'[r].pc = "done"
               /\ reqs'[r].resp = InternalError(OwnershipError)
               /\ progress' = progress
         /\ (reqs[r].pc = "progress" /\ reqs'[r].pc # "progress" /\ e # NoEx) =>
               /\ reqs'[r].pc = "progress_store" /\ reqs'[r].ex = e
               /\ progress' = progress
         /\ (reqs[r].pc = "progress_store" /\ reqs'[r].pc # "progress_store") =>
               /\ progress' = progress \cup {<<reqs[r].ex, reqs[r].name, reqs[r].body>>}
               /\ reqs'[r].resp = SuccessTrue
         /\ (reqs[r].path = "record-progress" /\ reqs'[r] # reqs[r] /\ ~Free(r)) =>
               /\ status' = status /\ assigned_to' = assigned_to]_vars

\* One recordProgress was stored and another failed with the ownership error.
C5_Witness ==
    /\ \E r \in ReqIds : /\ Done(r) /\ reqs[r].path = "record-progress"
                         /\ reqs[r].resp = InternalError(OwnershipError)
    /\ \E r \in ReqIds : /\ Done(r) /\ reqs[r].path = "record-progress"
                         /\ reqs[r].resp = SuccessTrue
                         /\ \E e \in Exps : <<e, reqs[r].name, reqs[r].body>> \in progress

\* C6: no step moves the status of an experiment backward in the lifecycle.
C6_Forward ==
    [][\A e \in Exps : Rank(status'[e]) >= Rank(status[e])]_vars

\* C8: the sink gets at most one message per experiment, none for an
\* experiment with no linked issue or with no assignee, and one for an
\* assigned experiment with a linked issue once the claimNext that assigned
\* it is past its notification.
Notifying(e) == \E r \in ReqIds : reqs[r].pc = "next_notify" /\ reqs[r].ex = e
C8_OneNotification ==
    \A e \in Exps :
        /\ sink[e] <= 1
        /\ ~github_issue[e] => sink[e] = 0
        /\ assigned_to[e] = NoAgent => sink[e] = 0
        /\ (github_issue[e] /\ assigned_to[e] # NoAgent /\ ~Notifying(e)) => sink[e] = 1

\* Both experiments were assigned and redelivered: one message for E1, none
\* for E2.
C8_Witness ==
    /\ \A e \in Exps : assigned_to[e] # NoAgent /\ ~Notifying(e)
    /\ \A e \in Exps : sink[e] = IF github_issue[e] THEN 1 ELSE 0
    /\ \E r \in ReqIds : reqs[r].pc = "next_strip" /\ ~reqs[r].new

\* C7: a heartbeat with no revision never reaches the revision step and
\* changes no stored revision; one with a revision stores it (when the
\* store succeeds) before the heartbeat is recorded; recording sets the
\* agent's last-heartbeat time to the current time and answers success.
C7_Heartbeat ==
    [][\A r \in ReqIds :
         LET a == reqs[r].name IN
         /\ (reqs[r].pc = "hb_revision" /\ reqs'[r].pc = "hb_record") =>
               /\ reqs[r].rev # NoRev /\ git_revision'[a] = reqs[r].rev
         /\ (reqs[r].pc = "hb_record" /\ reqs'[r].pc # "hb_record") =>
               /\ reqs'[r].pc = "done" /\ reqs'[r].resp = SuccessTrue
               /\ last_heartbeat'[a] = clock
               /\ git_revision' = git_revision
         /\ (reqs'[r].path = "heartbeat" /\ reqs'[r].rev = NoRev) =>
               /\ reqs'[r].pc \in {"hb_record", "done"}
               /\ reqs'[r] # reqs[r] => git_revision' = git_revision
         /\ (reqs'[r].path = "heartbeat" /\ reqs'[r].rev # NoRev
             /\ reqs'[r].pc = "hb_record" /\ reqs[r].pc # "hb_record") =>
               reqs[r].pc = "hb_revision"]_vars

\* After a heartbeat that stored rev1, a later heartbeat with no revision was
\* recorded: the time moved on, the revision stayed.
C7_Witness ==
    \E r \in ReqIds :
        LET a == reqs[r].name IN
        /\ Done(r) /\ reqs[r].path = "heartbeat" /\ reqs[r].rev = NoRev
        /\ reqs[r].resp = SuccessTrue
        /\ clock > 0 /\ last_heartbeat[a] = clock /\ git_revision[a] = "rev1"

\* C9: a finished request on an agent route whose credential is not an
\* agent's token was answered forbidden (403).
OnRoute(r) ==
    \E rt \in RouteTable : reqs[r].method = rt.method /\ reqs[r].path = rt.path
C9_Forbidden ==
    \A r \in ReqIds :
        (Done(r) /\ OnRoute(r) /\ TokenTypeOf(reqs[r].cred) # "Agent")
        => reqs[r].resp = Unauthorized /\ StatusCode(reqs[r].resp) = 403

\* C10: a heartbeat call that fails is reported and the thread goes to its
\* 60 second sleep, while run() stays where it is; a heartbeat call is made
\* only 60 seconds or more after the one before; the heartbeat thread, once
\* spawned, never ends.
HeartbeatFails ==
    \/ hb_pc = "beat_wait" /\ hb_pc' # "beat_wait" /\ ~ApiOk(HbSlot)
    \/ hb_pc = "beat" /\ hb_pc' \notin {"beat", "beat_wait"}
C10_HeartbeatFailure ==
    [][/\ HeartbeatFails =>
            /\ hb_pc' = "sleep" /\ hb_wake' = clock + HEARTBEAT_SECS
            /\ main_pc' = main_pc /\ agent_ex' = agent_ex
            /\ hb_result' = "err"
            /\ reported < MaxReported => reported' = reported + 1
       /\ (hb_pc = "beat" /\ hb_pc' # "beat") =>
            (hb_sent_at = Never \/ clock >= hb_sent_at + HEARTBEAT_SECS)
       /\ hb_pc # "unspawned" => hb_pc' \in {"beat", "beat_wait", "sleep"}]_vars

\* A heartbeat failed and was reported, and 60 seconds or more later the next
\* one was sent, while run() executes an experiment.
C10_Witness ==
    /\ reported >= 1 /\ hb_pc = "beat_wait" /\ hb_sent_at >= HEARTBEAT_SECS
    /\ main_pc = "run_ex"

\* C11: run() moves only along connect, spawn, fetch, execute, complete,
\* fetch ...; a failed fetch, a failed execution, a failed progress record
\* or a failed completion report ends run() at once; a completion report is
\* sent only after an execution that ended Ok; once run() has ended the
\* main thread sends nothing more.
MainOrder ==
    {<<"connect", "connect_wait">>, <<"connect_wait", "spawn">>, <<"spawn", "fetch">>,
     <<"fetch", "fetch_wait">>, <<"fetch_wait", "fetch">>, <<"fetch_wait", "run_ex">>,
     <<"run_ex", "ran_ok">>, <<"run_ex", "ran_err">>, <<"run_ex", "record_wait">>,
     <<"record_wait", "run_ex">>, <<"ran_ok", "complete">>,
     <<"complete", "complete_wait">>, <<"complete_wait", "fetch">>}
    \cup {<<p, "exited">> : p \in {"connect", "connect_wait", "fetch", "fetch_wait",
                                    "run_ex", "record_wait", "ran_err", "complete",
                                    "complete_wait"}}
MainSent(p) ==
    /\ Free(MainSlot) /\ reqs'[MainSlot] # reqs[MainSlot]
    /\ reqs'[MainSlot].path = p
C11_MainLoopFailFast ==
    [][/\ main_pc' # main_pc => <<main_pc, main_pc'>> \in MainOrder
       /\ (main_pc \in {"fetch_wait", "record_wait", "complete_wait"}
           /\ ~ApiOk(MainSlot) /\ main_pc' # main_pc) => main_pc' = "exited"
       /\ (main_pc = "fetch_wait" /\ main_pc' = "fetch") =>
             reqs[MainSlot].resp = SuccessEx(NoEx, {})
       /\ MainSent("complete-experiment") => main_pc = "complete"
       /\ MainSent("next-experiment") => main_pc = "fetch"
       /\ main_pc = "exited" =>
             /\ main_pc' = "exited"
             /\ Free(MainSlot) => reqs'[MainSlot] = reqs[MainSlot]]_vars

\* run() has ended while it held an experiment that is still Running: the
\* execution or a call after the fetch failed, and nothing was completed.
C11_Witness ==
    /\ main_pc = "exited" /\ agent_ex # NoEx /\ status[agent_ex] = "Running"
    /\ assigned_to[agent_ex] = "agent-a"
    /\ reqs[MainSlot].path = "next-experiment" /\ Done(MainSlot)

\* C12: while the handshake has not succeeded, and after it has failed, no
\* heartbeat thread exists and no request other than the one to /config was
\* ever sent; an agent whose credential the server rejects never gets past
\* the handshake.
C12_HandshakeFailFast ==
    /\ (main_pc \in {"connect", "connect_wait"}
        \/ (main_pc = "exited" /\ hb_pc = "unspawned")) =>
          /\ hb_pc = "unspawned" /\ hb_sent_at = Never /\ agent_ex = NoEx
          /\ \A r \in ReqIds : reqs[r].pc = "idle" \/ reqs[r].path = "config"
    /\ TokenTypeOf(token) # "Agent" =>
          /\ main_pc \in {"connect", "connect_wait", "exited"}
          /\ hb_pc = "unspawned"

\* The server answered the handshake of the agent with the bad credential
\* forbidden, and run() has ended.
C12_Witness ==
    /\ token = "garbage" /\ main_pc = "exited" /\ Done(MainSlot)
    /\ reqs[MainSlot].resp = Unauthorized /\ hb_pc = "unspawned"

\* C13: the wake of a complete handler is always possible, sets the flag
\* whatever the flag was and ends the handler with success; and no wake is
\* lost: an experiment that needs a report, and whose completing handler is
\* past its wake, has been found by a wake-up of the worker or the flag is
\* set for the next one.
WakePending(e) == \E r \in ReqIds : reqs[r].pc = "complete_wake" /\ reqs[r].ex = e
C13_NoLostWake ==
    /\ [](\A e \in Exps :
            (status[e] = "NeedsReport" /\ ~WakePending(e)) => (woken \/ e \in worker_seen))
    /\ [](\A r \in ReqIds : reqs[r].pc = "complete_wake" => ENABLED complete_wake(r))
    /\ [][\A r \in ReqIds :
            (reqs[r].pc = "complete_wake" /\ reqs'[r].pc # "complete_wake") =>
               /\ woken' /\ reqs'[r].pc = "done" /\ reqs'[r].resp = SuccessTrue
               /\ status' = status /\ worker_seen' = worker_seen]_vars

\* Two complete handlers have set the flag before the worker woke up, and
\* both experiments wait for the one wake-up.
C13_Witness ==
    /\ woken /\ worker_seen = {}
    /\ \A e \in Exps : status[e] = "NeedsReport" /\ ~WakePending(e)
    /\ \A r \in ReqIds : Done(r) /\ reqs[r].path = "complete-experiment"
                         /\ reqs[r].resp = SuccessTrue

\* C14: a request whose handler failed was answered with the 500 error
\* envelope, and the envelope's message is not the handler's own error text.
HandlerErrorTexts == {OwnershipError, SendError, RevisionError}
C14_GenericError ==
    \A r \in ReqIds :
        (Done(r) /\ reqs[r].resp.kind = "internal_error") =>
            /\ StatusCode(reqs[r].resp) = 500
            /\ reqs[r].resp.error \notin HandlerErrorTexts

\* C15: the notification of a first assignment is sent when the experiment
\* is already Running and assigned to the caller; whether or not the send
\* fails, the assignment stays and the handler goes on to return the
\* experiment.
C15_NotifyBestEffort ==
    [][\A r \in ReqIds :
         (reqs[r].pc = "next_notify" /\ reqs'[r].pc # "next_notify") =>
            /\ status[reqs[r].ex] = "Running"
            /\ assigned_to[reqs[r].ex] = reqs[r].name
            /\ status' = status /\ assigned_to' = assigned_to
            /\ reqs'[r].pc = "next_strip" /\ reqs'[r].ex = reqs[r].ex]_vars

\* C16: a heartbeat handler that ends has set the agent's last-heartbeat
\* time to the current time, whether a revision was supplied or not and
\* whether storing it succeeded or not, and has changed no experiment's
\* status or assignee.
C16_TimestampUnconditional ==
    [][\A r \in ReqIds :
         (reqs[r].pc \in {"hb_revision", "hb_record"} /\ reqs'[r].pc = "done") =>
            /\ last_heartbeat'[reqs[r].name] = clock
            /\ status' = status /\ assigned_to' = assigned_to]_vars

\* C17: every stored progress record of an experiment names the agent the
\* experiment is assigned to; a record is stored only by a recordProgress
\* whose lookup found the experiment Running and assigned to the caller, and
\* is stored for that experiment and that caller; a recordProgress whose
\* caller runs nothing at its lookup (a stale agent) ends with the ownership
\* error and stores nothing.
C17_ProgressFromAssignee ==
    /\ [](\A rec \in progress :
            assigned_to[rec[1]] = rec[2] /\ status[rec[1]] # "Queued")
    /\ [][/\ \A r \in ReqIds :
               /\ (reqs[r].pc = "progress" /\ reqs'[r].pc = "progress_store") =>
                     /\ status[reqs'[r].ex] = "Running"
                     /\ assigned_to[reqs'[r].ex] = reqs[r].name
               /\ (reqs[r].pc = "progress" /\ reqs'[r].pc # "progress"
                   /\ \A e \in Exps : ~(status[e] = "Running"
                                        /\ assigned_to[e] = reqs[r].name)) =>
                     /\ reqs'[r].resp = InternalError(OwnershipError)
                     /\ progress' = progress
          /\ progress' # progress =>
               \E r \in ReqIds :
                   /\ reqs[r].pc = "progress_store" /\ reqs'[r].pc = "done"
                   /\ progress' = progress \cup
                                    {<<reqs[r].ex, reqs[r].name, reqs[r].body>>}]_vars

\* agent-a's record for its experiment is stored, the experiment has been
\* completed since, and a later recordProgress of agent-a was rejected.
C17_Witness ==
    \E e \in Exps :
        /\ \E rec \in progress : rec[1] = e /\ rec[2] = "agent-a"
        /\ status[e] \in {"NeedsReport", "GeneratingReport", "Completed"}
        /\ \A e2 \in Exps : assigned_to[e2] = "agent-a" => status[e2] # "Running"
        /\ \E r \in ReqIds : /\ Done(r) /\ reqs[r].path = "record-progress"
                             /\ reqs[r].name = "agent-a"
                             /\ reqs[r].resp = InternalError(OwnershipError)

\* C18: a claimNext that returns an experiment, newly assigned or
\* redelivered, returns it through the stripping step, with exactly the
\* crates of which no result is stored for that experiment; the step
\* changes no status, no assignee and no stored result.
C18_Stripped ==
    [][\A r \in ReqIds :
         /\ (reqs[r].pc = "next_strip" /\ reqs'[r].pc = "done") =>
               /\ reqs'[r].resp =
                     SuccessEx(reqs[r].ex,
                               {p \in Pkgs : \A a \in Agents :
                                                <<reqs[r].ex, a, p>> \notin progress})
               /\ status' = status /\ assigned_to' = assigned_to
               /\ progress' = progress
         /\ (IsNext(r) /\ reqs[r].pc # "done" /\ reqs'[r].pc = "done"
             /\ reqs'[r].resp.kind = "success" /\ reqs'[r].resp.ex # NoEx) =>
               reqs[r].pc = "next_strip"]_vars

\* One claimNext returned an experiment with all its crates and another
\* returned one from which the crate with a stored result was stripped.
C18_Witness ==
    /\ \E r \in ReqIds : /\ Done(r) /\ IsNext(r) /\ reqs[r].resp.kind = "success"
                         /\ reqs[r].resp.ex # NoEx /\ reqs[r].resp.crates = Pkgs
    /\ \E r \in ReqIds : /\ Done(r) /\ IsNext(r) /\ reqs[r].resp.kind = "success"
                         /\ reqs[r].resp.ex # NoEx /\ reqs[r].resp.crates = {"bar"}
                         /\ <<reqs[r].resp.ex, reqs[r].name, "foo">> \in progress

\* C20: in every state each agent is the assignee of at most one Running
\* experiment, and a complete or recordProgress handler past its lookup
\* holds an experiment assigned to its caller.
C20_OneRunningPerAgent ==
    /\ \A a \in Agents : Cardinality(RunBy(a)) <= 1
    /\ \A r \in ReqIds :
          reqs[r].pc \in {"complete_set", "complete_wake", "progress_store"} =>
              assigned_to[reqs[r].ex] = reqs[r].name

\* Two claimNext calls of agent-a were served at the same time: both got the
\* one experiment it runs, and the other experiment is still Queued.
C20_Witness ==
    /\ \A r \in ReqIds : /\ IsNext(r) /\ reqs[r].name = "agent-a"
                         /\ reqs[r].pc = "next_strip"
    /\ \E e \in Exps : /\ \A r \in ReqIds : reqs[r].ex = e
                       /\ RunBy("agent-a") = {e}
                       /\ \A e2 \in Exps \ {e} : status[e2] = "Queued"

\* C19: an agent restarted while the registry holds a Running experiment of
\* its own gets that experiment from its fetch, and runs no other; when its
\* completion report succeeds the experiment is past Running; and after the
\* restart either run() ends with a failure or the experiment leaves
\* Running.
C19_RestartResumes ==
    /\ [][(main_pc = "fetch_wait" /\ main_pc' = "run_ex"
           /\ lost_ex \in Exps /\ status[lost_ex] = "Running") =>
              agent_ex' = lost_ex]_vars
    /\ []((lost_ex \in Exps /\ status[lost_ex] = "Running") =>
              RunBy(TokenName(token)) = {lost_ex})
    /\ [][(main_pc = "complete_wait" /\ main_pc' = "fetch") =>
              Rank(status[agent_ex]) >= Rank("NeedsReport")]_vars
    /\ \A e \in Exps :
          (lost_ex = e /\ main_pc = "connect") ~>
              (status[e] # "Running" \/ main_pc = "exited")

\* The restarted agent has fetched the experiment it ran before, executed it
\* and reported its completion; the other experiment is still Queued.
C19_Witness ==
    /\ lost_ex \in Exps /\ status[lost_ex] = "NeedsReport"
    /\ main_pc = "fetch" /\ agent_ex = NoEx
    /\ reqs[MainSlot].path = "complete-experiment" /\ reqs[MainSlot].resp = SuccessTrue
    /\ \A e \in Exps \ {lost_ex} : status[e] = "Queued"

====
